---- MODULE Spec2Model ----
(***************************************************************************)
(* The answer-resolution engine of rancher-dns (answer.go): Answers,       *)
(* Matching, RecurseHosts, shuffle and the recursive Addresses, run as a   *)
(* machine with an explicit call stack.  One query is resolved per         *)
(* behaviour against a configuration drawn in Init.                        *)
(*                                                                         *)
(* Domain names and client keys are strings of the program; a name is      *)
(* modelled as the sequence of its characters, so that dns.Fqdn is the     *)
(* real conversion (it appends the dot a name lacks).                      *)
(***************************************************************************)
EXTENDS Integers, Sequences, FiniteSets, TLC

VARIABLES answers, query, stack, ret, upstream, followed

vars == <<answers, query, stack, ret, upstream, followed>>

-----------------------------------------------------------------------------
(* Program constants *)

\* answer.go:15
DEFAULT_KEY == "default"

\* answer.go:82: the depth guard len(cnameParents) >= 10
MaxDepth == 10

\* answer.go:142,160: *defaultTtl, the process-wide default TTL
defaultTtl == 600

-----------------------------------------------------------------------------
(* Bounds of the model *)

\* the longest Answer list of an A entry
MaxAnswer == 2

\* the longest Recurse list of a client entry
MaxRecurse == 1

\* the most records an upstream answer carries
MaxUpstream == 1

-----------------------------------------------------------------------------
(* Names, addresses, TTL pointers *)

Dot == "."

\* dns.IsFqdn: the name ends in a dot
IsFqdn(s) == Len(s) > 0 /\ s[Len(s)] = Dot

\* dns.Fqdn: the name, with a dot appended when it has none
Fqdn(s) == IF IsFqdn(s) THEN s ELSE Append(s, Dot)

\* a *uint32: <<>> is nil, <<t>> points to t
NilTtl == <<>>

\* net.ParseIP: the address of a well-formed string, nil (<<>>) otherwise
ParseIP(s) ==
    CASE s = "1.2.3.4"  -> <<1, 2, 3, 4>>
      [] s = "10.1.2.3" -> <<10, 1, 2, 3>>
      [] s = "5.6.7.8"  -> <<5, 6, 7, 8>>
      [] OTHER          -> <<>>

\* dns.RR_Header + dns.A
RR_A(name, ttl, ip) ==
    [Name |-> name, Rrtype |-> "A", Class |-> "INET", Ttl |-> ttl,
     A |-> ip, Target |-> <<>>]

\* dns.RR_Header + dns.CNAME
RR_CNAME(name, ttl, target) ==
    [Name |-> name, Rrtype |-> "CNAME", Class |-> "INET", Ttl |-> ttl,
     A |-> <<>>, Target |-> target]

-----------------------------------------------------------------------------
(* shuffle: for i in range items, swap items[i] with items[rand.Intn(i+1)]  *)

Swap(s, i, j) == [s EXCEPT ![i] = s[j], ![j] = s[i]]

RECURSIVE ShuffleFrom(_, _)
\* the sequences the loop can leave, started at (1-based) index i on items
ShuffleFrom(items, i) ==
    IF i > Len(items) THEN {items}
    ELSE UNION { ShuffleFrom(Swap(items, i, j), i + 1) : j \in 1..i }

shuffle(items) == ShuffleFrom(items, 1)

-----------------------------------------------------------------------------
(* Matching *)

HasClient(ans, clientIp) == clientIp \in DOMAIN ans

\* MatchingARecords with line 143's test lost: every record gets the default TTL
MatchingARecords_DefaultTtlOnly(ans, clientIp, fqdn) ==
    IF ~HasClient(ans, clientIp) THEN <<>>
    ELSE LET client == ans[clientIp] IN
         IF fqdn \in DOMAIN client.A /\ Len(client.A[fqdn].Answer) > 0
         THEN LET res == client.A[fqdn]
              IN [i \in 1..Len(res.Answer) |->
                     RR_A(fqdn, defaultTtl, ParseIP(res.Answer[i]))]
         ELSE <<>>

\* the records built by the TypeA case, before the shuffle (lines 140-152)
MatchingARecords(ans, clientIp, fqdn) ==
    IF ~HasClient(ans, clientIp) THEN <<>>
    ELSE LET client == ans[clientIp] IN
         IF fqdn \in DOMAIN client.A /\ Len(client.A[fqdn].Answer) > 0
         THEN LET res == client.A[fqdn]
                  ttl == IF res.Ttl # NilTtl THEN res.Ttl[1] ELSE defaultTtl
              IN [i \in 1..Len(res.Answer) |->
                     RR_A(fqdn, ttl, ParseIP(res.Answer[i]))]
         ELSE <<>>

\* Matching(dns.TypeA, ...): the set of record lists it can return
\* (the shuffle of line 154 is random); <<>> stands for (nil, false)
MatchingA(ans, clientIp, fqdn) ==
    shuffle(MatchingARecords(ans, clientIp, fqdn))

\* MatchingCNAME that reads the default entry for a client key without one
MatchingCNAME_DefaultForUnknown(ans, clientIp, fqdn) ==
    LET key == IF HasClient(ans, clientIp) THEN clientIp ELSE DEFAULT_KEY IN
    IF ~HasClient(ans, key) THEN <<>>
    ELSE LET client == ans[key] IN
         IF fqdn \in DOMAIN client.Cname
         THEN LET res == client.Cname[fqdn]
                  ttl == IF res.Ttl # NilTtl THEN res.Ttl[1] ELSE defaultTtl
              IN <<RR_CNAME(fqdn, ttl, res.Answer)>>
         ELSE <<>>

\* Matching(dns.TypeCNAME, ...): the record list; <<>> stands for (nil, false)
MatchingCNAME(ans, clientIp, fqdn) ==
    IF ~HasClient(ans, clientIp) THEN <<>>
    ELSE LET client == ans[clientIp] IN
         IF fqdn \in DOMAIN client.Cname
         THEN LET res == client.Cname[fqdn]
                  ttl == IF res.Ttl # NilTtl THEN res.Ttl[1] ELSE defaultTtl
              IN <<RR_CNAME(fqdn, ttl, res.Answer)>>
         ELSE <<>>

-----------------------------------------------------------------------------
(* RecurseHosts *)

recurseHostsFor(ans, clientIp) ==
    IF HasClient(ans, clientIp) /\ Len(ans[clientIp].Recurse) > 0
    THEN ans[clientIp].Recurse
    ELSE <<>>

RecurseHosts(ans, clientIp) ==
    recurseHostsFor(ans, clientIp) \o recurseHostsFor(ans, DEFAULT_KEY)

-----------------------------------------------------------------------------
(* The Upstream Delegate, ResolveTryAll(fqdn, resolvers): tries each address *)
(* in order; the first success, or an error when none succeeds.             *)

UpstreamIPs == {<<5, 6, 7, 8>>}

RECURSIVE SeqsUpTo(_, _)
\* the sequences over S of length at most n
SeqsUpTo(S, n) ==
    IF n = 0 THEN {<<>>}
    ELSE LET shorter == SeqsUpTo(S, n - 1)
         IN shorter \cup {Append(q, x) : q \in shorter, x \in S}

\* the outcomes of one call: an error, or (with an address to try) a message
\* whose Answer holds zero or more address records for fqdn
ResolveTryAll(fqdn, resolvers) ==
    {[err |-> TRUE, Answer |-> <<>>]}
    \cup (IF Len(resolvers) = 0 THEN {}
          ELSE {[err |-> FALSE, Answer |-> a] :
                  a \in SeqsUpTo({RR_A(fqdn, 300, ip) : ip \in UpstreamIPs},
                                 MaxUpstream)})

-----------------------------------------------------------------------------
(* Addresses, as a machine.  A frame is one activation of Addresses:        *)
(*   pc = "start"    at line 79, nothing done yet                           *)
(*   pc = "cname"    waiting at line 100 for the call on the CNAME's target *)
(*   pc = "default"  waiting at line 119 for the call on the default tier   *)
(* ret is <<>> while a call runs and <<[records, ok]>> when the call that   *)
(* was on top has returned.  upstream lists the calls of ResolveTryAll, and *)
(* followed holds the (normalised) targets of the CNAMEs followed so far:   *)
(* both are histories, read by no step.                                     *)

NoRet == <<>>

Ret(records, ok) == <<[records |-> records, ok |-> ok]>>

Failed == Ret(<<>>, FALSE)

\* entering Addresses(clientIp, fqdn, cnameParents): line 79 normalises fqdn
Call(clientIp, fqdn, cnameParents) ==
    [clientIp |-> clientIp, fqdn |-> Fqdn(fqdn), cnameParents |-> cnameParents,
     pc |-> "start", cname |-> <<>>]

Top == stack[Len(stack)]

Running == Len(stack) > 0

Pop == SubSeq(stack, 1, Len(stack) - 1)

\* the top frame with some fields changed, then a callee pushed
PushOnto(frame, callee) == Append(Append(Pop, frame), callee)

\* the depth guard one level early (len(cnameParents) >= 9)
DepthOk_Early(f) == Len(f.cnameParents) < MaxDepth - 1

\* the depth guard one level late (len(cnameParents) > 10)
DepthOk_Late(f) == Len(f.cnameParents) <= MaxDepth

\* line 82 lets the call through
DepthOk(f) == Len(f.cnameParents) < MaxDepth

\* lines 88-89: the CNAME matched for the frame, <<>> when none
CnameOf(f) == MatchingCNAME(answers, f.clientIp, f.fqdn)

\* the frame stands before line 110: no CNAME matched, or the call on its
\* target came back without records
AtLookupA(f) ==
    \/ f.pc = "start" /\ ret = NoRet /\ DepthOk(f) /\ CnameOf(f) = <<>>
    \/ f.pc = "cname" /\ ret # NoRet
         /\ ~(ret[1].ok /\ Len(ret[1].records) > 0)

\* lines 110-111 matched nothing
NoA(f) == MatchingARecords(answers, f.clientIp, f.fqdn) = <<>>

\* AtUpstream without line 123's test of the chain
AtUpstream_AnyChain(f) ==
    AtLookupA(f) /\ NoA(f) /\ f.clientIp = DEFAULT_KEY

\* lines 118, 123: the frame reaches the upstream call
AtUpstream(f) ==
    AtLookupA(f) /\ NoA(f) /\ f.clientIp = DEFAULT_KEY /\ Len(f.cnameParents) > 0

\* line 94 without dns.Fqdn on the target
IsLoop_Raw(cname, fqdn) == cname.Target = fqdn

\* line 94: the CNAME names the very name it stands for
IsLoop(cname, fqdn) == Fqdn(cname.Target) = fqdn

\* a caller outside the engine: Addresses(clientIp, fqdn, nil)
Query(clientIp, fqdn) ==
    /\ query = <<>>
    /\ query' = <<[clientIp |-> clientIp, fqdn |-> fqdn]>>
    /\ stack' = <<Call(clientIp, fqdn, <<>>)>>
    /\ UNCHANGED <<answers, ret, upstream, followed>>

\* lines 82-85
TooDeep ==
    /\ Running /\ Top.pc = "start" /\ ret = NoRet
    /\ ~DepthOk(Top)
    /\ stack' = Pop
    /\ ret' = Failed
    /\ UNCHANGED <<answers, query, upstream, followed>>

\* lines 88-97
CnameLoop ==
    /\ Running /\ Top.pc = "start" /\ ret = NoRet
    /\ DepthOk(Top)
    /\ CnameOf(Top) # <<>>
    /\ IsLoop(CnameOf(Top)[1], Top.fqdn)
    /\ stack' = Pop
    /\ ret' = Failed
    /\ UNCHANGED <<answers, query, upstream, followed>>

\* lines 88-100
CnameRecurse ==
    /\ Running /\ Top.pc = "start" /\ ret = NoRet
    /\ DepthOk(Top)
    /\ CnameOf(Top) # <<>>
    /\ LET cname == CnameOf(Top)[1] IN
         /\ ~IsLoop(cname, Top.fqdn)
         /\ stack' = PushOnto([Top EXCEPT !.pc = "cname", !.cname = cname],
                              Call(Top.clientIp, Fqdn(cname.Target),
                                   Append(Top.cnameParents, cname)))
         /\ followed' = followed \cup {Fqdn(cname.Target)}
    /\ UNCHANGED <<answers, query, ret, upstream>>

\* lines 101-106 without the test len(children) > 0
CnameResolved_AnyChildren ==
    /\ Running /\ Top.pc = "cname" /\ ret # NoRet
    /\ ret[1].ok
    /\ stack' = Pop
    /\ ret' = Ret(<<Top.cname>> \o ret[1].records, TRUE)
    /\ UNCHANGED <<answers, query, upstream, followed>>

\* lines 101-106
CnameResolved ==
    /\ Running /\ Top.pc = "cname" /\ ret # NoRet
    /\ ret[1].ok /\ Len(ret[1].records) > 0
    /\ stack' = Pop
    /\ ret' = Ret(<<Top.cname>> \o ret[1].records, TRUE)
    /\ UNCHANGED <<answers, query, upstream, followed>>

\* lines 110-115
MatchedA ==
    /\ Running /\ AtLookupA(Top)
    /\ \E result \in MatchingA(answers, Top.clientIp, Top.fqdn) :
         /\ Len(result) > 0
         /\ \E shuffled \in shuffle(result) :
              ret' = Ret(shuffled, TRUE)
    /\ stack' = Pop
    /\ UNCHANGED <<answers, query, upstream, followed>>

\* lines 118-119, the call
TryDefault ==
    /\ Running /\ AtLookupA(Top) /\ NoA(Top)
    /\ Top.clientIp # DEFAULT_KEY
    /\ stack' = PushOnto([Top EXCEPT !.pc = "default"],
                         Call(DEFAULT_KEY, Top.fqdn, <<>>))
    /\ ret' = NoRet
    /\ UNCHANGED <<answers, query, upstream, followed>>

\* line 119, the return
DefaultReturn ==
    /\ Running /\ Top.pc = "default" /\ ret # NoRet
    /\ stack' = Pop
    /\ UNCHANGED <<answers, query, ret, upstream, followed>>

\* lines 123-127, err == nil
UpstreamOk ==
    /\ Running /\ AtUpstream(Top)
    /\ LET hosts == RecurseHosts(answers, Top.clientIp) IN
         /\ \E out \in ResolveTryAll(Top.fqdn, hosts) :
              /\ ~out.err
              /\ ret' = Ret(out.Answer, TRUE)
         /\ upstream' = Append(upstream, [fqdn |-> Top.fqdn, resolvers |-> hosts])
    /\ stack' = Pop
    /\ UNCHANGED <<answers, query, followed>>

\* lines 123-131, err != nil
UpstreamErr ==
    /\ Running /\ AtUpstream(Top)
    /\ LET hosts == RecurseHosts(answers, Top.clientIp) IN
         /\ \E out \in ResolveTryAll(Top.fqdn, hosts) : out.err
         /\ upstream' = Append(upstream, [fqdn |-> Top.fqdn, resolvers |-> hosts])
    /\ stack' = Pop
    /\ ret' = Failed
    /\ UNCHANGED <<answers, query, followed>>

\* lines 118, 123, 130-131: nothing matched and no CNAME is being resolved
NoMatch ==
    /\ Running /\ AtLookupA(Top) /\ NoA(Top)
    /\ Top.clientIp = DEFAULT_KEY
    /\ Len(Top.cnameParents) = 0
    /\ stack' = Pop
    /\ ret' = Failed
    /\ UNCHANGED <<answers, query, upstream, followed>>

-----------------------------------------------------------------------------
(* The configurations and queries of the model *)

NameA == <<"a", ".">>

NameB == <<"b", ".">>

\* the keys of the A and Cname maps
Keys == {NameA, NameB}

\* the targets a CNAME entry names: dotted, and the same names without the dot
Targets == {NameA, NameB, <<"a">>, <<"b">>}

\* the names a query asks for: dotted, and the same name without its dot
QueryNames == {NameA, <<"a">>}

ClientKeys == {"10.1.2.2", DEFAULT_KEY}

\* the functions from a subset of keys to vals (a Go map)
Maps(keys, vals) == UNION {[D -> vals] : D \in SUBSET keys}

EmptyMap == <<>>

\* every shape of the two CNAME maps and of the presence of A entries
ControlTiers ==
    [Recurse : {<<"8.8.8.8">>},
     A       : Maps(Keys, {[Ttl |-> NilTtl, Answer |-> <<"1.2.3.4">>]}),
     Cname   : Maps(Keys, [Ttl : {NilTtl}, Answer : Targets])]

\* every A entry for the queried name: a TTL or none, zero to MaxAnswer
\* addresses, well-formed or not
AddressTiers ==
    [Recurse : {<<"8.8.8.8">>},
     A       : Maps({NameA}, [Ttl : {NilTtl, <<42>>},
                              Answer : SeqsUpTo({"10.1.2.3", "bogus"}, MaxAnswer)]),
     Cname   : Maps({NameA}, [Ttl : {NilTtl, <<42>>}, Answer : {NameB}])]

\* every Recurse list
RecurseTiers ==
    [Recurse : SeqsUpTo({"8.8.8.8", "10.0.0.1"}, MaxRecurse),
     A       : {EmptyMap},
     Cname   : Maps({NameA}, [Ttl : {NilTtl}, Answer : {NameB}])]

\* Answers: each client key absent or present
AnswersSet ==
    Maps(ClientKeys, ControlTiers) \cup Maps(ClientKeys, AddressTiers)
        \cup Maps(ClientKeys, RecurseTiers)

Init ==
    /\ answers \in AnswersSet
    /\ query = <<>>
    /\ stack = <<>>
    /\ ret = NoRet
    /\ upstream = <<>>
    /\ followed = {}

\* one step of a running resolution
Step ==
    \/ TooDeep
    \/ CnameLoop
    \/ CnameRecurse
    \/ CnameResolved
    \/ MatchedA
    \/ TryDefault
    \/ DefaultReturn
    \/ UpstreamOk
    \/ UpstreamErr
    \/ NoMatch

Next ==
    \/ \E clientIp \in ClientKeys, fqdn \in QueryNames : Query(clientIp, fqdn)
    \/ Step

Spec == Init /\ [][Next]_vars

\* The CNAME tables of termination: every shape of the two CNAME maps over
\* dotted targets and one undotted, so circular in the client's tier, in the
\* default tier or across both, with or without A entries
CircularTiers ==
    {t \in ControlTiers :
        \A n \in DOMAIN t.Cname : t.Cname[n].Answer \in {NameA, NameB, <<"a">>}}

TermInit ==
    /\ answers \in Maps(ClientKeys, CircularTiers)
    /\ query = <<>>
    /\ stack = <<>>
    /\ ret = NoRet
    /\ upstream = <<>>
    /\ followed = {}

\* Addresses is sequential code: a resolution that can step does step
TermSpec == TermInit /\ [][Next]_vars /\ WF_vars(Next)

-----------------------------------------------------------------------------
(* Long chains of distinct names: n0 -> n1 -> ... -> nh                     *)

\* the most hops of a chain
MaxHops == 11

Digit == <<"0", "1", "2", "3", "4", "5", "6", "7", "8", "9", "x", "y", "z">>

DeepName(i) == <<"n", Digit[i + 1], ".">>

PlainA == [Ttl |-> NilTtl, Answer |-> <<"1.2.3.4">>]

\* the CNAME map of a chain of h hops from n0, closed on itself when self
ChainCname(h, self) ==
    [n \in {DeepName(i) : i \in 0..(IF self THEN h ELSE h - 1)} |->
        LET i == CHOOSE j \in 0..h : DeepName(j) = n
        IN [Ttl |-> NilTtl,
            Answer |-> IF i = h THEN DeepName(h) ELSE DeepName(i + 1)]]

\* a tier holding the chain; end says what stands at nh: nothing ("none"),
\* an A entry ("a") or a CNAME naming nh itself ("self")
ChainTier(h, end, recurse) ==
    [Recurse |-> recurse,
     A       |-> IF end = "a" THEN [n \in {DeepName(h)} |-> PlainA] ELSE EmptyMap,
     Cname   |-> ChainCname(h, end = "self")]

EmptyTier(recurse) == [Recurse |-> recurse, A |-> EmptyMap, Cname |-> EmptyMap]

ChainTiers ==
    {ChainTier(h, end, recurse) :
        h \in 0..MaxHops, end \in {"none", "a", "self"},
        recurse \in {<<>>, <<"8.8.8.8">>}}

\* the chain in the default tier, in the client's tier, or in the client's
\* tier beside a default tier without entries
DeepAnswersSet ==
    {[k \in {DEFAULT_KEY} |-> t] : t \in ChainTiers}
    \cup {[k \in {"10.1.2.2"} |-> t] : t \in ChainTiers}
    \cup {[k \in ClientKeys |->
              IF k = DEFAULT_KEY THEN EmptyTier(<<"8.8.8.8">>) ELSE t] :
            t \in ChainTiers}

DeepInit ==
    /\ answers \in DeepAnswersSet
    /\ query = <<>>
    /\ stack = <<>>
    /\ ret = NoRet
    /\ upstream = <<>>
    /\ followed = {}

DeepNext ==
    \/ \E clientIp \in ClientKeys : Query(clientIp, DeepName(0))
    \/ Step

DeepSpec == DeepInit /\ [][DeepNext]_vars

-----------------------------------------------------------------------------
(* Vocabulary of the properties *)

\* the resolution asked for has returned to its caller
Done == query # <<>> /\ stack = <<>>

Q == query[1]

Result == ret[1]

IsCnameRR(r) == r.Rrtype = "CNAME"

IsARR(r) == r.Rrtype = "A"

CnameCount(records) ==
    Cardinality({i \in 1..Len(records) : IsCnameRR(records[i])})

\* s is a rearrangement of t
IsPermutationOf(s, t) ==
    /\ Len(s) = Len(t)
    /\ \E p \in [1..Len(t) -> 1..Len(t)] :
         /\ \A i, j \in 1..Len(t) : p[i] = p[j] => i = j
         /\ \A i \in 1..Len(t) : s[i] = t[p[i]]

\* what the configuration holds under a client key
HasCnameEntry(key, name) ==
    key \in DOMAIN answers /\ name \in DOMAIN answers[key].Cname

HasAEntry(key, name) ==
    /\ key \in DOMAIN answers
    /\ name \in DOMAIN answers[key].A
    /\ Len(answers[key].A[name].Answer) > 0

ConfiguredRecurse(key) ==
    IF key \in DOMAIN answers THEN answers[key].Recurse ELSE <<>>

-----------------------------------------------------------------------------
(* C1 *)

\* the query comes from a client key without an entry in the answers map
NoEntryQuery ==
    query # <<>> /\ Q.clientIp # DEFAULT_KEY /\ Q.clientIp \notin DOMAIN answers

\* C1: resolution for a client key c without an entry is resolution for
\* "default": the activation Addresses(c, n, <<>>) does two things only.  It
\* first calls Addresses("default", n, <<>>), the very activation a direct
\* query of the default key starts with, having called no upstream itself;
\* and when that call returns it hands its records and found flag on
\* unchanged, calling no upstream either.  So the records, the flag and the
\* upstream calls of the two resolutions are the same.
C1_NoEntryIsDefault ==
    [][(NoEntryQuery /\ Len(stack) = 1) =>
          \/ /\ stack[1].pc = "start"
             /\ upstream = <<>>
             /\ stack' = <<[stack[1] EXCEPT !.pc = "default"],
                           Call(DEFAULT_KEY, Q.fqdn, <<>>)>>
             /\ upstream' = upstream
          \/ /\ stack[1].pc = "default"
             /\ stack' = <<>>
             /\ ret' = ret
             /\ upstream' = upstream]_vars

\* a client without an entry got records that the default tier's CNAME and
\* the upstream delegate produced
C1_Witness ==
    /\ Done /\ NoEntryQuery
    /\ Result.ok
    /\ Len(upstream) > 0
    /\ CnameCount(Result.records) > 0

-----------------------------------------------------------------------------
(* C2 *)

\* the client's own answer set has an A entry with addresses for the queried
\* name and no CNAME entry for it
OwnAOnly ==
    /\ query # <<>>
    /\ HasAEntry(Q.clientIp, Fqdn(Q.fqdn))
    /\ ~HasCnameEntry(Q.clientIp, Fqdn(Q.fqdn))

\* the address records the entry stands for, in the configured order
OwnARecords ==
    LET entry == answers[Q.clientIp].A[Fqdn(Q.fqdn)]
        ttl   == IF entry.Ttl = NilTtl THEN defaultTtl ELSE entry.Ttl[1]
    IN [i \in 1..Len(entry.Answer) |->
           [Name |-> Fqdn(Q.fqdn), Rrtype |-> "A", Class |-> "INET", Ttl |-> ttl,
            A |-> ParseIP(entry.Answer[i]), Target |-> <<>>]]

\* C2: when the client's own answer set has an A entry with addresses and no
\* CNAME entry for the name, the query is found and its records are a
\* rearrangement of that entry's addresses, one record per address, under the
\* entry's TTL or the default TTL, whatever the default tier holds.
C2_ClientAWins ==
    (Done /\ OwnAOnly) =>
        /\ Result.ok
        /\ IsPermutationOf(Result.records, OwnARecords)

\* a client's entry of two addresses with its own TTL came back in the other
\* order, although the default tier has an A entry for the name too
C2_Witness ==
    /\ Done /\ OwnAOnly
    /\ Q.clientIp # DEFAULT_KEY
    /\ HasAEntry(DEFAULT_KEY, Fqdn(Q.fqdn))
    /\ answers[DEFAULT_KEY].A[Fqdn(Q.fqdn)] # answers[Q.clientIp].A[Fqdn(Q.fqdn)]
    /\ Len(Result.records) = 2
    /\ Result.records[1].Ttl = 42
    /\ Result.records[1] # Result.records[2]
    /\ Result.records[1] = OwnARecords[2]

-----------------------------------------------------------------------------
(* C3 *)

\* records is k >= 0 CNAME records and then at least one address record, the
\* first record named first, each CNAME's target (as Norm reads it) the name
\* of the record after it, every address record under one name
IsChain(records, first, Norm(_)) ==
    /\ Len(records) > 0
    /\ records[1].Name = first
    /\ \E k \in 0..(Len(records) - 1) :
         /\ \A i \in 1..k : IsCnameRR(records[i])
         /\ \A i \in (k + 1)..Len(records) : IsARR(records[i])
         /\ \A i \in 1..k : Norm(records[i].Target) = records[i + 1].Name
         /\ \A i \in (k + 1)..Len(records) : records[i].Name = records[k + 1].Name

Raw(name) == name

\* C3 as claimed: the result is nothing and not found, or found with a
\* complete chain whose first record is named n (the name asked for, as line
\* 79 normalises it) and in which each CNAME's target is the name of the
\* next record.
C3_Original ==
    Done =>
        \/ ~Result.ok /\ Result.records = <<>>
        \/ Result.ok /\ IsChain(Result.records, Fqdn(Q.fqdn), Raw)

\* C3, amended: the same, with each CNAME's target compared as dns.Fqdn
\* normalises it: Fqdn of the target is the name of the next record (a CNAME
\* record carries its configured target as written, with or without the
\* final dot, while the records after it are named with the dot).
C3_CompleteChainOrNothing ==
    Done =>
        \/ ~Result.ok /\ Result.records = <<>>
        \/ Result.ok /\ IsChain(Result.records, Fqdn(Q.fqdn), Fqdn)

\* a found chain of two CNAMEs, one with an undotted target, ending in
\* records of the upstream delegate
C3_Witness ==
    /\ Done /\ Result.ok
    /\ CnameCount(Result.records) >= 2
    /\ \E i \in 1..Len(Result.records) :
         IsCnameRR(Result.records[i]) /\ ~IsFqdn(Result.records[i].Target)
    /\ Len(upstream) > 0
    /\ Result.records[Len(Result.records)].Ttl = 300

-----------------------------------------------------------------------------
(* C4 *)

\* the names ResolveTryAll was called for
Invoked == {upstream[i].fqdn : i \in 1..Len(upstream)}

\* the tiers a resolution for the querying client reads
QueryTiers == {Q.clientIp, DEFAULT_KEY}

\* C4 as claimed, each half read in the way most favourable to it.
\*  "if": a name that was the target of a followed CNAME and has no entry of
\*        any kind in the client's tier or the default tier is looked up
\*        upstream;
\*  "only if": a name looked up upstream was the target of a followed CNAME
\*        and has no A entry in the client's tier or the default tier;
\*  and a direct query without a CNAME entry that misses both tiers calls no
\*  upstream.
C4_Original ==
    Done =>
        /\ \A t \in followed :
             (\A key \in QueryTiers : ~HasAEntry(key, t) /\ ~HasCnameEntry(key, t))
                 => t \in Invoked
        /\ \A t \in Invoked :
             /\ t \in followed
             /\ \A key \in QueryTiers : ~HasAEntry(key, t)
        /\ (/\ \A key \in QueryTiers : ~HasCnameEntry(key, Fqdn(Q.fqdn))
            /\ ~Result.ok) => upstream = <<>>

\* the call on its CNAME's target came back to frame f with records
CnameCameBack(f) == f.pc = "cname" /\ ret # NoRet /\ ret[1].ok /\ Len(ret[1].records) > 0

\* the activation f is one that asks upstream: it runs under the default key
\* with a chain of 1 to 9 CNAMEs behind it, the default tier has no A entry
\* with addresses for its name, and its name has no CNAME in the default
\* tier or the call on that CNAME's target came back without records
AsksUpstream(f) ==
    /\ f.clientIp = DEFAULT_KEY
    /\ Len(f.cnameParents) \in 1..(MaxDepth - 1)
    /\ ~HasAEntry(DEFAULT_KEY, f.fqdn)
    /\ \/ f.pc = "start" /\ ~HasCnameEntry(DEFAULT_KEY, f.fqdn)
       \/ f.pc = "cname" /\ ret # NoRet /\ ~CnameCameBack(f)

\* C4, amended: upstream is asked for a name t exactly by an activation
\* Addresses("default", t, chain) with 0 < len(chain) < 10, that is when t was
\* the target of a CNAME followed in the default tier, the default tier has
\* no A entry with addresses for t, and t has no CNAME in the default tier
\* or that CNAME did not resolve to records.  The client's own entries for t
\* play no part, and the target of a CNAME followed in a client's own tier is
\* retried in the default tier with an empty chain, without asking upstream
\* for it.  A direct query whose name has no CNAME entry in either tier
\* never asks upstream.
C4_UpstreamGate ==
    /\ [][/\ (upstream' # upstream) =>
               /\ Running /\ AsksUpstream(Top)
               /\ Top.fqdn \in followed
               /\ Len(upstream') = Len(upstream) + 1
               /\ upstream'[Len(upstream')].fqdn = Top.fqdn
          /\ (Running /\ AsksUpstream(Top)) => upstream' # upstream]_vars
    /\ [](Done =>
            ((\A key \in QueryTiers : ~HasCnameEntry(key, Fqdn(Q.fqdn)))
                => upstream = <<>>))

\* upstream was asked for the target of a default-tier CNAME although the
\* client's own tier has an A entry for that target
C4_WitnessAsked ==
    /\ Done
    /\ Q.clientIp # DEFAULT_KEY
    /\ \E t \in Invoked : HasAEntry(Q.clientIp, t)

-----------------------------------------------------------------------------
(* C5 *)

\* the list the claim expects for a resolution started for the query's
\* client: the client's own recurse list, then the default tier's (for the
\* default key itself, the default tier's list)
ExpectedResolvers ==
    IF Q.clientIp = DEFAULT_KEY THEN ConfiguredRecurse(DEFAULT_KEY)
    ELSE ConfiguredRecurse(Q.clientIp) \o ConfiguredRecurse(DEFAULT_KEY)

\* C5 as claimed: every call of the upstream delegate passes the client's own
\* recurse list followed by the default tier's; with only the default tier
\* configured and recurse = ["8.8.8.8"], it passes exactly ["8.8.8.8"].
C5_Original ==
    \A i \in 1..Len(upstream) : upstream[i].resolvers = ExpectedResolvers

-----------------------------------------------------------------------------
(* C6 *)

\* C6 as claimed: no found result holds the same CNAME record twice (a
\* circular CNAME chain is an error).
C6_Original ==
    (Done /\ Result.ok) =>
        \A i, j \in 1..Len(Result.records) :
            (IsCnameRR(Result.records[i]) /\ Result.records[i] = Result.records[j])
                => i = j

-----------------------------------------------------------------------------
(* C7 *)

\* C7 as claimed: no found result holds more than 10 CNAME records.
C7_Original ==
    (Done /\ Result.ok) => CnameCount(Result.records) <= MaxDepth

-----------------------------------------------------------------------------
(* C9 *)

\* the answer set of the frame's client key has a CNAME entry for the
\* frame's name whose target normalises to that name
SelfReferential(f) ==
    /\ HasCnameEntry(f.clientIp, f.fqdn)
    /\ Fqdn(answers[f.clientIp].Cname[f.fqdn].Answer) = f.fqdn

\* C9: an activation Addresses(clientKey, fqdn, chain) whose answer set has a
\* CNAME entry for fqdn naming fqdn itself returns at once, not found and
\* without records, whatever else is configured: it makes no call on the
\* default tier and none upstream.
C9_SelfReferentialFails ==
    [][(Running /\ Top.pc = "start" /\ SelfReferential(Top)) =>
          /\ stack' = Pop
          /\ ret' = Failed
          /\ upstream' = upstream]_vars

\* a client's query failed on its own CNAME "a." -> "a", although its answer
\* set has an A entry for the name and the default tier has one too
C9_Witness ==
    /\ Done
    /\ Q.clientIp # DEFAULT_KEY
    /\ HasCnameEntry(Q.clientIp, Fqdn(Q.fqdn))
    /\ answers[Q.clientIp].Cname[Fqdn(Q.fqdn)].Answer = <<"a">>
    /\ HasAEntry(Q.clientIp, Fqdn(Q.fqdn))
    /\ HasAEntry(DEFAULT_KEY, Fqdn(Q.fqdn))
    /\ ret = Failed
    /\ upstream = <<>>

-----------------------------------------------------------------------------
(* C10 (checked under TermSpec) *)

\* the activations waiting at line 119 for the default tier
DefaultFallbacks == {i \in 1..Len(stack) : stack[i].pc = "default"}

\* C10: every resolution returns, with a result; no activation ever has a
\* chain of more than 10 CNAMEs, and at most one activation on the stack
\* waits for the default tier (the fallback is entered at most once along
\* any path of nested calls).
C10_Terminates ==
    /\ [](/\ \A i \in 1..Len(stack) : Len(stack[i].cnameParents) <= MaxDepth
          /\ Cardinality(DefaultFallbacks) <= 1
          /\ Done => ret # NoRet)
    /\ <>Done

\* a resolution over CNAME tables that are circular in the client's tier and
\* in the default tier has returned
C10_Witness ==
    /\ Done
    /\ Q.clientIp # DEFAULT_KEY
    /\ \A key \in QueryTiers :
         /\ HasCnameEntry(key, NameA) /\ answers[key].Cname[NameA].Answer = NameB
         /\ HasCnameEntry(key, NameB) /\ answers[key].Cname[NameB].Answer = NameA
         /\ ~HasAEntry(key, NameA) /\ ~HasAEntry(key, NameB)
    /\ ret = Failed
    /\ Len(upstream) > 0

-----------------------------------------------------------------------------
(* C8 (checked under DeepSpec) *)

\* the tier under key holds exactly the chain n0 -> ... -> nh, with an A
\* entry at nh when withA and no other entry
HoldsChain(key, h, withA) ==
    /\ key \in DOMAIN answers
    /\ answers[key].Cname = ChainCname(h, FALSE)
    /\ answers[key].A = (IF withA THEN [n \in {DeepName(h)} |-> PlainA] ELSE EmptyMap)

HoldsNothing(key) ==
    key \in DOMAIN answers => (answers[key].Cname = EmptyMap /\ answers[key].A = EmptyMap)

\* the queried name n0 heads the chain in the client's own tier
HeadsOwnChain(h, withA) ==
    /\ query # <<>> /\ Q.fqdn = DeepName(0)
    /\ Q.clientIp # DEFAULT_KEY
    /\ HoldsChain(Q.clientIp, h, withA)
    /\ HoldsNothing(DEFAULT_KEY)

\* the queried name n0 heads the chain in the default tier
HeadsDefaultChain(h, withA) ==
    /\ query # <<>> /\ Q.fqdn = DeepName(0)
    /\ HoldsChain(DEFAULT_KEY, h, withA)
    /\ Q.clientIp # DEFAULT_KEY => Q.clientIp \notin DOMAIN answers

HeadsChain(h, withA) == HeadsOwnChain(h, withA) \/ HeadsDefaultChain(h, withA)

\* the CNAME records of the first h hops, in traversal order
ChainRecords(h) ==
    [i \in 1..h |->
        [Name |-> DeepName(i - 1), Rrtype |-> "CNAME", Class |-> "INET",
         Ttl |-> defaultTtl, A |-> <<>>, Target |-> DeepName(i)]]

\* 9 hops ending in an A record: found, the 9 CNAMEs and then the address
NineHopsFound ==
    (Done /\ HeadsChain(MaxDepth - 1, TRUE)) =>
        /\ Result.ok
        /\ Result.records =
              ChainRecords(MaxDepth - 1)
                 \o <<[Name |-> DeepName(MaxDepth - 1), Rrtype |-> "A",
                       Class |-> "INET", Ttl |-> defaultTtl,
                       A |-> <<1, 2, 3, 4>>, Target |-> <<>>]>>

\* C8 as claimed: a chain of exactly 10 distinct hops without a terminal A
\* record is not found; a chain of 9 hops ending in an A record is found,
\* the 9 CNAME records followed by the address records.
C8_Original ==
    /\ (Done /\ HeadsChain(MaxDepth, FALSE)) => ~Result.ok
    /\ NineHopsFound

\* C8, amended: a chain of exactly 10 distinct hops without a terminal A
\* record is not found unless the upstream delegate returns records for one
\* of the chain's targets, which it is asked for only when the chain lies in
\* the default tier: the result is then the CNAMEs down to that target and
\* the delegate's records.  In a client's own tier the query always fails
\* and upstream is never asked.  The 9-hop half stands as claimed.
C8_DepthBoundary ==
    /\ (Done /\ HeadsChain(MaxDepth, FALSE)) =>
          /\ Result.ok =>
                /\ Len(upstream) > 0
                /\ \E k \in 1..(MaxDepth - 1) :
                     /\ upstream[Len(upstream)].fqdn = DeepName(k)
                     /\ SubSeq(Result.records, 1, k) = ChainRecords(k)
                     /\ Len(Result.records) > k
                     /\ \A i \in (k + 1)..Len(Result.records) :
                          /\ IsARR(Result.records[i])
                          /\ Result.records[i].Name = DeepName(k)
          /\ HeadsOwnChain(MaxDepth, FALSE) => (ret = Failed /\ upstream = <<>>)
    /\ NineHopsFound

\* a 10-hop chain in the default tier failed after upstream was asked for
\* each of its 9 targets in turn
C8_Witness ==
    /\ Done /\ HeadsChain(MaxDepth, FALSE)
    /\ ret = Failed
    /\ Len(upstream) = MaxDepth - 1

====
